---- MODULE Spec2Model ----
(***************************************************************************)
(* ATF grammar composition (override.ipynb).                               *)
(*                                                                         *)
(* The notebook defines test_grammar(grammar_path, lines): it opens a      *)
(* lark grammar file and parses every line, printing the tree or           *)
(* "Cannot parse <line>".  The grammar files are the listings of the       *)
(* notebook: ebl_atf, oracc_atf, merged_atf and oracc_extension, the last  *)
(* one importing ebl_atf and composing it with %extend.                    *)
(*                                                                         *)
(* A rule set is a function from rule names to sets of alternatives; an    *)
(* alternative of the listings is one symbol, a quoted string (a terminal) *)
(* or a rule name.  A grammar file is the rule set it imports (empty for a *)
(* file without %import) and its statements in the order they are written. *)
(***************************************************************************)
EXTENDS Naturals, Sequences, FiniteSets

VARIABLES grammar_path, lines, parser, i, out, pc

vars == <<grammar_path, lines, parser, i, out, pc>>

----------------------------------------------------------------------------
(* Bounds of the model *)

\* statements of a generated extension (declaration order)
MaxStmts == 2
\* lines of a generated input list
MaxLines == 2

----------------------------------------------------------------------------
(* The sample data of the notebook *)

EblTextline == "This is an eBL textline"
CommonLine == "And this is a common linetype"
OraccTextline == "This is an oracc-style textline"
OraccLine == "Here is an oracc-specific linetype"

ebl_lines == <<EblTextline, CommonLine>>

oracc_lines == <<OraccTextline, OraccLine>>

sample_lines == ebl_lines \o oracc_lines

\* lark reads a lower-case identifier as a rule and a quoted string as a terminal
RuleNames == {"start", "textline", "common_line", "oracc_line", "legacy_line"}

IsRuleName(a) == a \in RuleNames

EmptyRules == [r \in {} |-> {}]

RuleStmt(n, alts) == [kind |-> "rule", name |-> n, alts |-> alts]

ExtendStmt(n, alts) == [kind |-> "extend", name |-> n, alts |-> alts]

OverrideStmt(n, alts) == [kind |-> "override", name |-> n, alts |-> alts]

GrammarFile(base, stmts) == [base |-> base, stmts |-> stmts]

ebl_atf ==
    GrammarFile(EmptyRules,
        << RuleStmt("start", {"textline", "common_line"}),
           RuleStmt("textline", {EblTextline}),
           RuleStmt("common_line", {CommonLine}) >>)

oracc_atf ==
    GrammarFile(EmptyRules,
        << RuleStmt("start", {"textline", "legacy_line", "common_line"}),
           RuleStmt("textline", {OraccTextline}),
           RuleStmt("common_line", {CommonLine}),
           RuleStmt("legacy_line", {OraccLine}) >>)

merged_atf ==
    GrammarFile(EmptyRules,
        << RuleStmt("start", {"textline", "common_line", "legacy_line"}),
           RuleStmt("textline", {EblTextline, OraccTextline}),
           RuleStmt("common_line", {CommonLine}),
           RuleStmt("legacy_line", {OraccLine}) >>)

\* the statements of oracc_extension that follow its %import
oracc_extension_stmts ==
    << RuleStmt("oracc_line", {OraccLine}),
       ExtendStmt("textline", {OraccTextline}),
       ExtendStmt("start", {"oracc_line"}) >>

----------------------------------------------------------------------------
(* Lark.open: loading a grammar file *)

Ok(rules) == [ok |-> TRUE, rules |-> rules, error |-> ""]

GrammarError(msg) == [ok |-> FALSE, rules |-> EmptyRules, error |-> msg]

DefinedTwice == "defined more than once"
UnknownRule == "unknown rule"
UsedNotDefined == "used but not defined"

\* name: alts -- a definition; lark refuses a second definition of a name
ApplyRule(defs, s) ==
    IF s.name \in DOMAIN defs
    THEN GrammarError(DefinedTwice)
    ELSE Ok([r \in DOMAIN defs \cup {s.name} |->
                IF r = s.name THEN s.alts ELSE defs[r]])

\* %extend name: alts -- adds the alternatives to a rule that is defined
\* faulty variants of %extend: replacing the rule, touching every rule, accepting
\* an undefined rule, adding nothing
ApplyExtendReplaces(defs, s) ==
    IF s.name \notin DOMAIN defs
    THEN GrammarError(UnknownRule)
    ELSE Ok([defs EXCEPT ![s.name] = s.alts])

ApplyExtendAll(defs, s) ==
    IF s.name \notin DOMAIN defs
    THEN GrammarError(UnknownRule)
    ELSE Ok([r \in DOMAIN defs |-> defs[r] \cup s.alts])

ApplyExtendUnchecked(defs, s) ==
    IF s.name \notin DOMAIN defs
    THEN Ok(defs)
    ELSE Ok([defs EXCEPT ![s.name] = @ \cup s.alts])

ApplyExtendNothing(defs, s) ==
    IF s.name \notin DOMAIN defs
    THEN GrammarError(UnknownRule)
    ELSE Ok(defs)

ApplyExtend(defs, s) ==
    IF s.name \notin DOMAIN defs
    THEN GrammarError(UnknownRule)
    ELSE Ok([defs EXCEPT ![s.name] = @ \cup s.alts])

\* %override name: alts -- replaces the definition of a rule that is defined
\* faulty variant: the old alternatives are kept
ApplyOverrideKeepsBase(defs, s) ==
    IF s.name \notin DOMAIN defs
    THEN GrammarError(UnknownRule)
    ELSE Ok([defs EXCEPT ![s.name] = @ \cup s.alts])

ApplyOverride(defs, s) ==
    IF s.name \notin DOMAIN defs
    THEN GrammarError(UnknownRule)
    ELSE Ok([defs EXCEPT ![s.name] = s.alts])

ApplyStmt(defs, s) ==
    CASE s.kind = "rule" -> ApplyRule(defs, s)
      [] s.kind = "extend" -> ApplyExtend(defs, s)
      [] s.kind = "override" -> ApplyOverride(defs, s)

\* the statements are applied in the order they are written; the first error ends
\* the load
RECURSIVE ResolveFrom(_, _)
ResolveFrom(defs, stmts) ==
    IF stmts = <<>>
    THEN Ok(defs)
    ELSE LET r == ApplyStmt(defs, Head(stmts))
         IN  IF r.ok THEN ResolveFrom(r.rules, Tail(stmts)) ELSE r

\* faulty variant: the statements taken last to first
Reverse(s) == [k \in 1..Len(s) |-> s[Len(s) + 1 - k]]

ResolveStmtsReversed(defs, stmts) == ResolveFrom(defs, Reverse(stmts))

ResolveStmts(defs, stmts) == ResolveFrom(defs, stmts)

\* faulty variant: no check
ValidateNothing(defs) == Ok(defs)

\* after the statements lark checks that every rule used is defined, and the
\* parser needs the start rule
Validate(defs) ==
    IF \E r \in DOMAIN defs : \E a \in defs[r] : IsRuleName(a) /\ a \notin DOMAIN defs
    THEN GrammarError(UsedNotDefined)
    ELSE IF "start" \notin DOMAIN defs
    THEN GrammarError(UsedNotDefined)
    ELSE Ok(defs)

\* %import .base (names): the rules of the base enter the namespace under their
\* own names; the listing imports every rule of ebl_atf
\* faulty variant: only the rules some rule names are imported
ImportReachable(base) ==
    [r \in {n \in DOMAIN base : n = "start" \/ \E m \in DOMAIN base : n \in base[m]}
        |-> base[r]]

Import(base) == [r \in DOMAIN base |-> base[r]]

Load(file) ==
    LET r == ResolveStmts(Import(file.base), file.stmts)
    IN  IF r.ok THEN Validate(r.rules) ELSE r

oracc_extension == GrammarFile(Load(ebl_atf).rules, oracc_extension_stmts)

SampleFiles == {ebl_atf, oracc_atf, merged_atf, oracc_extension}

----------------------------------------------------------------------------
(* parser.parse: matching a line *)

RECURSIVE ReachFrom(_, _)
ReachFrom(G, S) ==
    LET N == S \cup {a \in UNION {G[r] : r \in S} : a \in DOMAIN G}
    IN  IF N = S THEN S ELSE ReachFrom(G, N)

\* the rules start derives
Reach(G) == IF "start" \in DOMAIN G THEN ReachFrom(G, {"start"}) ELSE {}

\* the rules whose terminal matches the whole line
Matching(G, line) == {r \in Reach(G) : line \in G[r]}

Accepts(G, line) == Matching(G, line) # {}

\* every rule but start is written ?rule: with one child it is inlined, so the
\* tree is start over the rule that matched the terminal (which has no child,
\* the anonymous token being filtered out)
\* faulty variant: the matched rule is lost
TreeOfStartOnly(r) == <<"start">>

TreeOf(r) == IF r = "start" THEN <<"start">> ELSE <<"start", r>>

Trees(G, line) == {TreeOf(r) : r \in Matching(G, line)}

\* the Earley parser with the dynamic lexer: a text that ends before any rule is
\* complete (here the empty text, every alternative being one terminal) raises
\* UnexpectedEOF; a text no terminal matches raises UnexpectedCharacters
ParseOutcome(G, line) ==
    IF Accepts(G, line) THEN "tree"
    ELSE IF line = "" THEN "UnexpectedEOF"
    ELSE "UnexpectedCharacters"

----------------------------------------------------------------------------
(* test_grammar(grammar_path, lines) *)

Printed(line, tree) == [kind |-> "tree", line |-> line, tree |-> tree]

CannotParse(line) == [kind |-> "Cannot parse", line |-> line, tree |-> <<>>]

NoParser == [ok |-> FALSE, rules |-> EmptyRules, error |-> ""]

\* parser = Lark.open(grammar_path): outside the try, a GrammarError leaves
\* test_grammar
Open ==
    /\ pc = "open"
    /\ parser' = Load(grammar_path)
    /\ pc' = IF parser'.ok THEN "loop" ELSE "raised"
    /\ UNCHANGED <<grammar_path, lines, i, out>>

\* one iteration of the loop: the tree is printed, or UnexpectedCharacters is
\* caught and "Cannot parse" printed; any other exception leaves test_grammar
ParseLine ==
    /\ pc = "loop"
    /\ i <= Len(lines)
    /\ LET line == lines[i]
           outcome == ParseOutcome(parser.rules, line)
       IN  CASE outcome = "tree" ->
                  /\ \E t \in Trees(parser.rules, line) :
                        out' = Append(out, Printed(line, t))
                  /\ i' = i + 1
                  /\ pc' = pc
             [] outcome = "UnexpectedCharacters" ->
                  /\ out' = Append(out, CannotParse(line))
                  /\ i' = i + 1
                  /\ pc' = pc
             [] OTHER ->
                  /\ pc' = "raised"
                  /\ UNCHANGED <<i, out>>
    /\ UNCHANGED <<grammar_path, lines, parser>>

Return ==
    /\ pc = "loop"
    /\ i > Len(lines)
    /\ pc' = "done"
    /\ UNCHANGED <<grammar_path, lines, parser, i, out>>

Next == Open \/ ParseLine \/ Return

----------------------------------------------------------------------------
(* The runs of the notebook: a sample grammar file and a list of lines *)

LineUniverse == {EblTextline, CommonLine, OraccTextline, OraccLine, "", "Not an ATF line"}

SeqsUpTo(S, n) == UNION {[1..k -> S] : k \in 0..n}

LineLists == {sample_lines, ebl_lines, oracc_lines} \cup SeqsUpTo(LineUniverse, MaxLines)

Init ==
    /\ grammar_path \in SampleFiles
    /\ lines \in LineLists
    /\ parser = NoParser
    /\ i = 1
    /\ out = <<>>
    /\ pc = "open"

Spec == Init /\ [][Next]_vars

----------------------------------------------------------------------------
(* Composition in general: a base rule set and generated extension statements *)

BaseRules == {"start", "textline", "common_line"}

\* valid base grammars over the rule names of ebl_atf (ebl_atf's rule set among them)
Bases ==
    {b \in [BaseRules -> (SUBSET {"textline", "common_line", EblTextline, CommonLine}) \ {{}}] :
        /\ b["start"] \subseteq {"textline", "common_line"}
        /\ b["textline"] \subseteq {EblTextline, CommonLine}
        /\ b["common_line"] \subseteq {EblTextline, CommonLine}}

StmtUniverse ==
    {RuleStmt("oracc_line", {OraccLine})}
    \cup {ExtendStmt(n, {a}) : n \in {"textline", "start", "oracc_line"},
                               a \in {OraccTextline, "oracc_line"}}
    \cup {OverrideStmt(n, s) : n \in {"textline", "oracc_line"},
                               s \in {{OraccTextline}, {"common_line"}, {"oracc_line"}}}

GeneratedFiles == {GrammarFile(b, s) : b \in Bases, s \in SeqsUpTo(StmtUniverse, MaxStmts)}

InitResolve ==
    /\ grammar_path \in GeneratedFiles \cup SampleFiles
    /\ lines = sample_lines
    /\ parser = NoParser
    /\ i = 1
    /\ out = <<>>
    /\ pc = "open"

SpecResolve == InitResolve /\ [][Next]_vars

----------------------------------------------------------------------------
(* What the properties below read *)

Stmts == grammar_path.stmts

Base == grammar_path.base

Loaded == pc # "open"

Resolved == Loaded /\ parser.ok

Idx(kind) == {k \in 1..Len(Stmts) : Stmts[k].kind = kind}

Modifies(k, R) == Stmts[k].kind \in {"extend", "override"} /\ Stmts[k].name = R

ExtendedAlts(R, after) ==
    UNION {Stmts[k].alts : k \in {j \in Idx("extend") : j > after /\ Stmts[j].name = R}}

RefsDefined(alts, names) == \A a \in alts : IsRuleName(a) => a \in names

\* every line the base accepts is accepted by the loaded grammar
AcceptedLinesKept == \A l \in LineUniverse : Accepts(Base, l) => Accepts(parser.rules, l)

\* the base without alternative A of rule R
Without(G, R, A) == [G EXCEPT ![R] = @ \ {A}]

AcceptedOnlyThrough(G, R, A, l) == Accepts(G, l) /\ ~Accepts(Without(G, R, A), l)

\* rule R of G derives the line
Derives(G, R, l) == \E r \in ReachFrom(G, {R}) : l \in G[r]

----------------------------------------------------------------------------
(* C1: extending preserves and adds.  In the rule set a load without %override
   yields, each rule R of the base has exactly the base's alternatives of R and
   the alternatives the %extend statements of R add, and every line the base
   accepts is still accepted; one %extend of a rule of the base with an
   alternative whose rule names the base defines always yields a rule set. *)
C1_ExtendPreservesAndAdds ==
    (Loaded /\ Idx("override") = {})
    => /\ (Len(Stmts) = 1 /\ Stmts[1].kind = "extend" /\ Stmts[1].name \in DOMAIN Base
           /\ RefsDefined(Stmts[1].alts, DOMAIN Base))
          => parser.ok
       /\ parser.ok
          => /\ \A R \in DOMAIN Base :
                   /\ R \in DOMAIN parser.rules
                   /\ parser.rules[R] = Base[R] \cup ExtendedAlts(R, 0)
             /\ AcceptedLinesKept

C1_Witness ==
    /\ pc = "done" /\ parser.ok
    /\ Len(Stmts) = 1 /\ Stmts[1].kind = "extend" /\ Stmts[1].name \in DOMAIN Base
    /\ ~(Stmts[1].alts \subseteq Base[Stmts[1].name])
    /\ \E l \in LineUniverse : Accepts(Base, l)
    /\ \E l \in LineUniverse : ~Accepts(Base, l) /\ Accepts(parser.rules, l)

----------------------------------------------------------------------------
(* C2, as stated: in the rule set that one %override of a rule R of the base
   yields, R is exactly the extension's definition, and a line the base accepted
   only through an alternative of R that the extension does not declare again
   is rejected. *)
C2_OverrideRejectsBaseOnlyLines ==
    (Resolved /\ Len(Stmts) = 1 /\ Stmts[1].kind = "override" /\ Stmts[1].name \in DOMAIN Base)
    => LET R == Stmts[1].name
       IN  /\ parser.rules[R] = Stmts[1].alts
           /\ \A A \in Base[R] \ Stmts[1].alts : \A l \in LineUniverse :
                 AcceptedOnlyThrough(Base, R, A, l) => ~Accepts(parser.rules, l)

(* C2, amended: in the rule set that a load with one %override of a rule R of
   the base (and no %extend) yields, R is exactly the extension's definition, no
   alternative that only the base had is in R, and a line the base accepted only
   through such an alternative is rejected unless the new definition of R still
   derives it (by declaring the alternative again or through a rule it names);
   one %override whose rule names the base defines always yields a rule set. *)
C2_OverrideReplaces ==
    (Loaded /\ Cardinality(Idx("override")) = 1 /\ Idx("extend") = {})
    => LET k == CHOOSE j \in Idx("override") : TRUE
           R == Stmts[k].name
       IN  R \in DOMAIN Base
           => /\ (Len(Stmts) = 1 /\ RefsDefined(Stmts[k].alts, DOMAIN Base)) => parser.ok
              /\ parser.ok
                 => /\ parser.rules[R] = Stmts[k].alts
                    /\ \A A \in Base[R] \ Stmts[k].alts :
                          /\ A \notin parser.rules[R]
                          /\ \A l \in LineUniverse :
                                (AcceptedOnlyThrough(Base, R, A, l) /\ ~Derives(parser.rules, R, l))
                                => ~Accepts(parser.rules, l)

C2_Witness ==
    /\ pc = "done" /\ parser.ok
    /\ Len(Stmts) = 1 /\ Stmts[1].kind = "override" /\ Stmts[1].name \in DOMAIN Base
    /\ \E A \in Base[Stmts[1].name] \ Stmts[1].alts : \E l \in LineUniverse :
          /\ AcceptedOnlyThrough(Base, Stmts[1].name, A, l)
          /\ ~Accepts(parser.rules, l)

----------------------------------------------------------------------------
(* C3, as stated: a load with a %extend or %override statement naming a rule
   that is absent from the base fails with the unknown-rule error. *)
C3_AbsentFromBaseFails ==
    (Loaded /\ \E k \in 1..Len(Stmts) : \E R \in RuleNames \ DOMAIN Base : Modifies(k, R))
    => (~parser.ok /\ parser.error = UnknownRule)

\* statement k extends or overrides a name that neither the base nor an earlier
\* rule definition of the extension defines
UnknownTarget(k) ==
    /\ Stmts[k].kind \in {"extend", "override"}
    /\ Stmts[k].name \notin DOMAIN Base
    /\ ~\E j \in 1..(k - 1) : Stmts[j].kind = "rule" /\ Stmts[j].name = Stmts[k].name

\* an earlier statement defines a name a second time
DefinedTwiceBefore(k) ==
    \E j \in 1..(k - 1) :
        /\ Stmts[j].kind = "rule"
        /\ \/ Stmts[j].name \in DOMAIN Base
           \/ \E h \in 1..(j - 1) : Stmts[h].kind = "rule" /\ Stmts[h].name = Stmts[j].name

(* C3, amended: a load with a %extend or %override statement, at any position,
   naming a rule that neither the base nor an earlier rule definition of the
   extension defines fails: no rule set is produced, test_grammar is left by the
   error before any line is parsed, and the error is the unknown-rule error
   unless an earlier statement already failed by defining a rule twice. *)
C3_UnknownTargetFails ==
    (Loaded /\ \E k \in 1..Len(Stmts) : UnknownTarget(k))
    => LET first == CHOOSE k \in 1..Len(Stmts) :
                        UnknownTarget(k) /\ \A j \in 1..(k - 1) : ~UnknownTarget(j)
       IN  /\ ~parser.ok
           /\ parser.rules = EmptyRules
           /\ pc = "raised"
           /\ out = <<>>
           /\ parser.error = IF DefinedTwiceBefore(first) THEN DefinedTwice ELSE UnknownRule

C3_Witness ==
    /\ pc = "raised" /\ parser.error = UnknownRule
    /\ \E k \in 1..Len(Stmts) : k > 1 /\ UnknownTarget(k) /\ Stmts[k].kind = "override"
    /\ \A j \in 1..Len(Stmts) : j > 1 \/ ~UnknownTarget(j)

----------------------------------------------------------------------------
\* the entry test_grammar prints for a line the loaded grammar matches or not
Expected(G, line) ==
    IF Accepts(G, line)
    THEN {Printed(line, tr) : tr \in Trees(G, line)}
    ELSE {CannotParse(line)}

ebl_rules == Load(ebl_atf).rules

oracc_rules == Load(oracc_atf).rules

merged_rules == Load(merged_atf).rules

extension_rules == Load(oracc_extension).rules

(* C4: the end-to-end scenario.  Under oracc_extension each of the four sample
   lines is printed as a tree, the two eBL lines as start/textline and
   start/common_line, the very trees ebl_atf gives them, and the run over the
   four sample lines ends with four trees. *)
C4_EndToEndExtension ==
    (grammar_path = oracc_extension /\ Loaded)
    => /\ parser.ok
       /\ \A k \in 1..Len(out) :
             /\ out[k].line = lines[k]
             /\ lines[k] \in {EblTextline, CommonLine, OraccTextline, OraccLine}
                => out[k].kind = "tree"
             /\ lines[k] = EblTextline => out[k].tree = <<"start", "textline">>
             /\ lines[k] = CommonLine => out[k].tree = <<"start", "common_line">>
             /\ lines[k] \in {EblTextline, CommonLine}
                => Trees(ebl_rules, lines[k]) = {out[k].tree}
       /\ (pc = "done" /\ lines = sample_lines) => Len(out) = 4

C4_Witness ==
    /\ grammar_path = oracc_extension /\ lines = sample_lines /\ pc = "done"
    /\ Len(out) = 4
    /\ out[3].tree = <<"start", "textline">>
    /\ out[4].tree = <<"start", "oracc_line">>

----------------------------------------------------------------------------
(* C5, as stated: once the grammar is loaded no failure leaves test_grammar;
   every line before the current one has its entry, the tree when the grammar
   matches the line and "Cannot parse <line>" when it does not, in input
   order. *)
C5_FailureReportedNotPropagated ==
    (Loaded /\ parser.ok)
    => /\ pc # "raised"
       /\ Len(out) = i - 1
       /\ \A k \in 1..Len(out) : out[k] \in Expected(parser.rules, lines[k])

----------------------------------------------------------------------------
(* C6: resolution with no extensions is the identity.  A load of a base with no
   statement yields a rule set with exactly the base's rule names and, for each
   rule, exactly the base's alternatives. *)
C6_NoExtensionsIdentity ==
    (Loaded /\ Stmts = <<>>)
    => /\ parser.ok
       /\ DOMAIN parser.rules = DOMAIN Base
       /\ \A R \in DOMAIN Base : parser.rules[R] = Base[R]

C6_Witness ==
    /\ pc = "done" /\ Stmts = <<>> /\ parser.ok
    /\ Base # EmptyRules
    /\ \E R \in DOMAIN Base : R \notin Reach(Base)

----------------------------------------------------------------------------
(* C7: declaration order, the last override wins.  In the rule set a load
   yields, a rule R that some %override names has exactly the alternatives of
   the last %override of R and of the %extend statements of R written after it;
   what the base, an earlier %extend or an earlier %override gave R is in R only
   if these give it again. *)
C7_LastOverrideWins ==
    Resolved
    => \A R \in DOMAIN parser.rules :
          LET ov == {k \in Idx("override") : Stmts[k].name = R}
          IN  ov # {}
              => LET last == CHOOSE k \in ov : \A j \in ov : j <= k
                 IN  parser.rules[R] = Stmts[last].alts \cup ExtendedAlts(R, last)

C7_Witness ==
    /\ pc = "done" /\ parser.ok
    /\ \E j, k \in 1..Len(Stmts) :
          /\ j < k
          /\ Stmts[j].kind = "extend" /\ Stmts[k].kind = "override"
          /\ Stmts[j].name = Stmts[k].name
          /\ Stmts[j].name \in DOMAIN Base
          /\ ~(Stmts[j].alts \subseteq parser.rules[Stmts[j].name])
          /\ ~(Base[Stmts[j].name] \subseteq parser.rules[Stmts[j].name])

----------------------------------------------------------------------------
(* C8: no dangling references.  In every rule set a load yields, every rule
   name that appears in an alternative of a rule is itself defined in the rule
   set, the names that %extend and %override brought in included. *)
C8_NoDanglingReferences ==
    Resolved
    => \A R \in DOMAIN parser.rules : \A a \in parser.rules[R] :
          IsRuleName(a) => a \in DOMAIN parser.rules

C8_Witness ==
    /\ pc = "done" /\ parser.ok
    /\ "oracc_line" \notin DOMAIN Base
    /\ \E k \in Idx("extend") : Stmts[k].name = "start" /\ "oracc_line" \in Stmts[k].alts
    /\ "oracc_line" \in parser.rules["start"]
    /\ "oracc_line" \in DOMAIN parser.rules

----------------------------------------------------------------------------
(* C9: resolution touches only the named rules.  In the rule set a load yields,
   every rule of the base that no %extend and no %override names has exactly
   the alternatives it has in the base; under oracc_extension common_line still
   matches only the common line. *)
C9_UnnamedRulesUnchanged ==
    Resolved
    => /\ \A R \in DOMAIN Base :
             (~\E k \in 1..Len(Stmts) : Modifies(k, R))
             => (R \in DOMAIN parser.rules /\ parser.rules[R] = Base[R])
       /\ grammar_path = oracc_extension => parser.rules["common_line"] = {CommonLine}

C9_Witness ==
    /\ pc = "done" /\ parser.ok
    /\ \E k \in 1..Len(Stmts) : \E R \in DOMAIN Base :
          Modifies(k, R) /\ parser.rules[R] # Base[R]
    /\ \E R \in DOMAIN Base :
          (~\E k \in 1..Len(Stmts) : Modifies(k, R)) /\ parser.rules[R] = Base[R]

----------------------------------------------------------------------------
\* the Oracc-specific line is legacy_line in merged_atf, oracc_line in the extension
Relabel(tr) == [k \in DOMAIN tr |-> IF tr[k] = "legacy_line" THEN "oracc_line" ELSE tr[k]]

(* C10: the three options agree.  Under merged_atf and under oracc_extension
   a line is printed as a tree exactly when ebl_atf or oracc_atf accepts it; the
   two grammars accept the same lines, the union of what ebl_atf and oracc_atf
   accept; and the tree printed for a line is the tree of the other option up
   to the label legacy_line / oracc_line. *)
C10_OptionsAgree ==
    (Loaded /\ grammar_path \in {merged_atf, oracc_extension})
    => /\ parser.ok
       /\ \A l \in LineUniverse :
             /\ Accepts(parser.rules, l) <=> (Accepts(ebl_rules, l) \/ Accepts(oracc_rules, l))
             /\ Accepts(merged_rules, l) <=> Accepts(extension_rules, l)
       /\ \A k \in 1..Len(out) :
             /\ out[k].kind = "tree"
                <=> (Accepts(ebl_rules, lines[k]) \/ Accepts(oracc_rules, lines[k]))
             /\ out[k].kind = "tree"
                => /\ {Relabel(tr) : tr \in Trees(merged_rules, lines[k])} = {Relabel(out[k].tree)}
                   /\ {Relabel(tr) : tr \in Trees(extension_rules, lines[k])} = {Relabel(out[k].tree)}

C10_Witness ==
    /\ grammar_path = merged_atf /\ pc = "done" /\ Len(out) = 2
    /\ out[1].kind = "Cannot parse"
    /\ out[2].tree = <<"start", "legacy_line">>
    /\ Trees(extension_rules, lines[2]) = {<<"start", "oracc_line">>}
    /\ ~Accepts(ebl_rules, lines[2]) /\ Accepts(oracc_rules, lines[2])

====
